---- MODULE Spec2Model ----
(***************************************************************************)
(* The grievance service: the regex fallback extractor, the intake         *)
(* handler POST /collect-complaint, the retrieval handler                  *)
(* POST /retrieve-complaints, the listing handler GET /complaints and the  *)
(* session dependency get_db, over one SQLite table of complaints.         *)
(*                                                                         *)
(* Text is a sequence of one-character strings, so that the regular        *)
(* expressions of the source are computed character by character. A value  *)
(* that is used more than once is an operator's parameter, not a LET name. *)
(***************************************************************************)
EXTENDS Integers, Sequences, FiniteSets, TLC

\* ------------------------------------------------------------------ text

UpperChars ==
    <<"A","B","C","D","E","F","G","H","I","J","K","L","M","N","O","P","Q","R","S","T","U","V","W","X","Y","Z">>

LowerChars ==
    <<"a","b","c","d","e","f","g","h","i","j","k","l","m","n","o","p","q","r","s","t","u","v","w","x","y","z">>

\* [A-Za-z]
Letters ==
    {UpperChars[i] : i \in 1..26} \cup {LowerChars[i] : i \in 1..26}

\* \d
DigitChars ==
    {"0","1","2","3","4","5","6","7","8","9"}

\* \s
SpaceChars ==
    {" ", "\t", "\n"}

\* \w
WordChars ==
    Letters \cup DigitChars \cup {"_"}

\* [A-Za-z\s], the class of the captured name
NameClass ==
    Letters \cup SpaceChars

\* (?:\s|,|\.|$): the characters that end a name (the end of input is IsTerm's)
TermChars ==
    SpaceChars \cup {",", "."}

\* str.lower() on one character
LowerChar(c) ==
    IF \E i \in 1..26 : UpperChars[i] = c
    THEN LowerChars[CHOOSE i \in 1..26 : UpperChars[i] = c]
    ELSE c

\* str.lower()
Lower(s) ==
    [i \in 1..Len(s) |-> LowerChar(s[i])]

\* s[a..b] are all in class cls (true of an empty range)
AllIn(s, a, b, cls) ==
    \A k \in a..b : s[k] \in cls

\* the literal lit (lower case) stands at position i of s, case ignored
LitAt(s, i, lit) ==
    /\ i >= 1
    /\ i + Len(lit) - 1 <= Len(s)
    /\ \A k \in 1..Len(lit) : LowerChar(s[i + k - 1]) = lit[k]

\* `word in text`
Contains(text, word) ==
    \E i \in 1..(Len(text) - Len(word) + 1) :
        \A k \in 1..Len(word) : text[i + k - 1] = word[k]

\* the length of the run of characters of cls that starts at position i
RECURSIVE RunLen(_, _, _)
RunLen(s, i, cls) ==
    IF i <= Len(s) /\ s[i] \in cls THEN 1 + RunLen(s, i + 1, cls) ELSE 0

\* (?:\s|,|\.|$) matches at position p
IsTerm(s, p) ==
    \/ p = Len(s) + 1
    \/ p <= Len(s) /\ s[p] \in TermChars

\* the position after (?:\s|,|\.|$) matched at p: the alternatives that consume
\* a character are tried before $
TermEnd(s, p) ==
    IF p <= Len(s) /\ s[p] \in TermChars THEN p + 1 ELSE p

\* the least and the greatest member of a non-empty set of numbers
MinOf(S) ==
    CHOOSE i \in S : \A j \in S : i <= j

MaxOf(S) ==
    CHOOSE i \in S : \A j \in S : j <= i

\* s cut to the span of the positions keep
SpanOf(s, keep) ==
    IF keep = {} THEN <<>> ELSE SubSeq(s, MinOf(keep), MaxOf(keep))

\* leading and trailing characters of cls removed
StripOf(s, cls) ==
    SpanOf(s, {k \in 1..Len(s) : s[k] \notin cls})

\* str.strip()
strip(s) ==
    StripOf(s, SpaceChars)

\* ------------------------------------------------- regex fallback extractor

NoMatch ==
    [ok |-> FALSE, start |-> 0, gs |-> 0, ge |-> 0, end |-> 0]

\* a match from position start up to (not including) end, whose group is gs..ge-1
Match(start, gs, ge, end) ==
    [ok |-> TRUE, start |-> start, gs |-> gs, ge |-> ge, end |-> end]

\* r'\b\d{10}\b' matches at position i
MobileAt(s, i) ==
    /\ i >= 1
    /\ i + 9 <= Len(s)
    /\ AllIn(s, i, i + 9, DigitChars)
    /\ (i = 1 \/ s[i - 1] \notin WordChars)
    /\ (i + 10 > Len(s) \/ s[i + 10] \notin WordChars)

\* the leftmost of the matches that start at the positions at
MobileFirst(at) ==
    IF at = {} THEN NoMatch
    ELSE Match(MinOf(at), MinOf(at), MinOf(at) + 10, MinOf(at) + 10)

\* re.search(r'\b\d{10}\b', s) from position p on
MobileSearch(s, p) ==
    MobileFirst({i \in p..Len(s) : MobileAt(s, i)})

\* The six name patterns. "prefix": lit, \s+ or \s* (at least wmin whitespace),
\* the lazy group ([A-Za-z\s]+?), then (?:\s|,|\.|$). "suffix": the lazy group,
\* \s+, lit, then (?:\s|,|\.|$).
name_patterns ==
    << [kind |-> "prefix", wmin |-> 1, lit |-> <<"m","y"," ","n","a","m","e"," ","i","s">>],
       [kind |-> "prefix", wmin |-> 1, lit |-> <<"i"," ","a","m">>],
       [kind |-> "prefix", wmin |-> 0, lit |-> <<"n","a","m","e",":">>],
       [kind |-> "prefix", wmin |-> 1, lit |-> <<"c","a","l","l"," ","m","e">>],
       [kind |-> "suffix", wmin |-> 1, lit |-> <<"h","e","r","e">>],
       [kind |-> "suffix", wmin |-> 1, lit |-> <<"i","s"," ","m","y"," ","n","a","m","e">>] >>

\* The ways a prefix pattern whose literal ends before position a can go on: c[1]
\* whitespace characters (of the run of W), then a group of c[2] characters, then
\* the terminator.
PrefixCands(s, a, wmin, W) ==
    {c \in (wmin..W) \X (1..Len(s)) :
        /\ a + c[1] + c[2] - 1 <= Len(s)
        /\ AllIn(s, a + c[1], a + c[1] + c[2] - 1, NameClass)
        /\ IsTerm(s, a + c[1] + c[2])}

\* the one the backtracking matcher finds first: the whitespace run is greedy
\* (longest first), the group lazy (shortest first)
PrefixBest(cands) ==
    CHOOSE c \in cands : \A d \in cands : c[1] > d[1] \/ (c[1] = d[1] /\ c[2] <= d[2])

PrefixMatch(s, i, a, c) ==
    Match(i, a + c[1], a + c[1] + c[2], TermEnd(s, a + c[1] + c[2]))

PrefixPick(s, i, a, cands) ==
    IF cands = {} THEN NoMatch ELSE PrefixMatch(s, i, a, PrefixBest(cands))

\* a prefix pattern matched at position i
PrefixMatchAt(s, i, pat) ==
    IF ~LitAt(s, i, pat.lit) THEN NoMatch
    ELSE PrefixPick(s, i, i + Len(pat.lit),
                    PrefixCands(s, i + Len(pat.lit), pat.wmin,
                                RunLen(s, i + Len(pat.lit), SpaceChars)))

\* The ways a suffix pattern can match at position i: a group of c[1] characters,
\* c[2] whitespace characters, the literal, then the terminator.
SuffixCands(s, i, lit) ==
    {c \in (1..Len(s)) \X (1..Len(s)) :
        /\ i + c[1] + c[2] - 1 <= Len(s)
        /\ AllIn(s, i, i + c[1] - 1, NameClass)
        /\ AllIn(s, i + c[1], i + c[1] + c[2] - 1, SpaceChars)
        /\ LitAt(s, i + c[1] + c[2], lit)
        /\ IsTerm(s, i + c[1] + c[2] + Len(lit))}

\* the group is lazy (shortest first), the whitespace run greedy (longest first)
SuffixBest(cands) ==
    CHOOSE c \in cands : \A d \in cands : c[1] < d[1] \/ (c[1] = d[1] /\ c[2] >= d[2])

SuffixMatch(s, i, lit, c) ==
    Match(i, i, i + c[1], TermEnd(s, i + c[1] + c[2] + Len(lit)))

SuffixPick(s, i, lit, cands) ==
    IF cands = {} THEN NoMatch ELSE SuffixMatch(s, i, lit, SuffixBest(cands))

\* a suffix pattern matched at position i
SuffixMatchAt(s, i, pat) ==
    SuffixPick(s, i, pat.lit, SuffixCands(s, i, pat.lit))

PatternMatchAt(s, i, pat) ==
    IF pat.kind = "prefix" THEN PrefixMatchAt(s, i, pat) ELSE SuffixMatchAt(s, i, pat)

\* the leftmost of the matches that start at the positions at
PatternFirst(s, pat, at) ==
    IF at = {} THEN NoMatch ELSE PatternMatchAt(s, MinOf(at), pat)

\* re.search(pattern, s, re.IGNORECASE) from position p on
PatternSearch(s, pat, p) ==
    PatternFirst(s, pat, {i \in p..Len(s) : PatternMatchAt(s, i, pat).ok})

\* re.sub(pattern, '', s, flags=re.IGNORECASE) from position p on: every
\* non-overlapping match, left to right, removed
RECURSIVE PatternSubFrom(_, _, _)
PatternSubStep(s, pat, p, m) ==
    IF ~m.ok THEN SubSeq(s, p, Len(s))
    ELSE SubSeq(s, p, m.start - 1) \o PatternSubFrom(s, pat, m.end)

PatternSubFrom(s, pat, p) ==
    IF p > Len(s) THEN <<>> ELSE PatternSubStep(s, pat, p, PatternSearch(s, pat, p))

\* re.sub(r'\b\d{10}\b', '', s) from position p on
RECURSIVE MobileSubFrom(_, _)
MobileSubStep(s, p, m) ==
    IF ~m.ok THEN SubSeq(s, p, Len(s))
    ELSE SubSeq(s, p, m.start - 1) \o MobileSubFrom(s, m.end)

MobileSubFrom(s, p) ==
    IF p > Len(s) THEN <<>> ELSE MobileSubStep(s, p, MobileSearch(s, p))

\* re.sub(r'\s+', ' ', s) from position p on
RECURSIVE CollapseSpaceFrom(_, _)
CollapseSpaceFrom(s, p) ==
    IF p > Len(s) THEN <<>>
    ELSE IF s[p] \in SpaceChars
         THEN <<" ">> \o CollapseSpaceFrom(s, p + RunLen(s, p, SpaceChars))
         ELSE <<s[p]>> \o CollapseSpaceFrom(s, p + 1)

\* main.py 71-72: every match of name_patterns[k..6] removed, pattern by pattern
RECURSIVE RemoveNames(_, _)
RemoveNames(s, k) ==
    IF k > Len(name_patterns) THEN s
    ELSE RemoveNames(PatternSubFrom(s, name_patterns[k], 1), k + 1)

\* Python values: None, str, int (v is its decimal rendering) and list
PyNone ==
    [t |-> "none", v |-> <<>>]

PyStr(s) ==
    [t |-> "str", v |-> s]

\* main.py 60-64: the first pattern of name_patterns[k..6] that matches decides
\* the name, which is the group stripped
RECURSIVE FirstName(_, _)
FirstNameStep(message, k, name_match) ==
    IF name_match.ok
    THEN PyStr(strip(SubSeq(message, name_match.gs, name_match.ge - 1)))
    ELSE FirstName(message, k + 1)

FirstName(message, k) ==
    IF k > Len(name_patterns) THEN PyNone
    ELSE FirstNameStep(message, k, PatternSearch(message, name_patterns[k], 1))

\* main.py 46-48
FirstMobile(message, mobile_match) ==
    IF mobile_match.ok
    THEN PyStr(SubSeq(message, mobile_match.gs, mobile_match.ge - 1))
    ELSE PyNone

\* re.sub(r'^[,\s]+', '', s)
LStripCommaSpace(s) ==
    SubSeq(s, RunLen(s, 1, SpaceChars \cup {","}) + 1, Len(s))

\* re.sub(r'[,\s]+$', '', s)
RStripCommaSpace(s) ==
    SubSeq(s, 1, Len(s) - RunLen([k \in 1..Len(s) |-> s[Len(s) + 1 - k]], 1,
                                  SpaceChars \cup {","}))

billing_words ==
    << <<"b","i","l","l","i","n","g">>,
       <<"b","i","l","l">>,
       <<"c","h","a","r","g","e">>,
       <<"p","a","y","m","e","n","t">>,
       <<"c","o","s","t">> >>

technical_words ==
    << <<"t","e","c","h","n","i","c","a","l">>,
       <<"a","p","p">>,
       <<"s","o","f","t","w","a","r","e">>,
       <<"c","r","a","s","h">>,
       <<"b","u","g">> >>

service_words ==
    << <<"s","e","r","v","i","c","e">>,
       <<"s","u","p","p","o","r","t">>,
       <<"c","u","s","t","o","m","e","r"," ","s","e","r","v","i","c","e">> >>

urgent_words ==
    << <<"u","r","g","e","n","t">>,
       <<"e","m","e","r","g","e","n","c","y">>,
       <<"c","r","i","t","i","c","a","l">> >>

high_words ==
    << <<"h","i","g","h">>,
       <<"i","m","p","o","r","t","a","n","t">>,
       <<"s","e","r","i","o","u","s">> >>

low_words ==
    << <<"l","o","w">>,
       <<"m","i","n","o","r">>,
       <<"s","m","a","l","l">> >>

\* the category and priority names, and the status a new row gets
General ==
    <<"g","e","n","e","r","a","l">>

Technical ==
    <<"t","e","c","h","n","i","c","a","l">>

Billing ==
    <<"b","i","l","l","i","n","g">>

Service ==
    <<"s","e","r","v","i","c","e">>

Medium ==
    <<"m","e","d","i","u","m">>

Low ==
    <<"l","o","w">>

High ==
    <<"h","i","g","h">>

Urgent ==
    <<"u","r","g","e","n","t">>

Pending ==
    <<"p","e","n","d","i","n","g">>

\* any(word in message.lower() for word in words)
AnyWordIn(message, words) ==
    \E k \in 1..Len(words) : Contains(Lower(message), words[k])

\* a keyword scan that tests the technical bucket before the billing bucket
FallbackCategoryTechnicalFirst(message) ==
    IF AnyWordIn(message, technical_words) THEN Technical
    ELSE IF AnyWordIn(message, billing_words) THEN Billing
    ELSE IF AnyWordIn(message, service_words) THEN Service
    ELSE General

\* the category keyword scan: the if / elif chain (main.py 76-83)
FallbackCategory(message) ==
    IF AnyWordIn(message, billing_words) THEN Billing
    ELSE IF AnyWordIn(message, technical_words) THEN Technical
    ELSE IF AnyWordIn(message, service_words) THEN Service
    ELSE General

\* the priority keyword scan: the if / elif chain (main.py 85-92)
FallbackPriority(message) ==
    IF AnyWordIn(message, urgent_words) THEN Urgent
    ELSE IF AnyWordIn(message, high_words) THEN High
    ELSE IF AnyWordIn(message, low_words) THEN Low
    ELSE Medium

\* the complaint text: name matches and mobile numbers removed, whitespace
\* collapsed, then stripped of whitespace and commas at both ends
FallbackText(message) ==
    RStripCommaSpace(LStripCommaSpace(strip(CollapseSpaceFrom(
        MobileSubFrom(RemoveNames(message, 1), 1), 1))))

\* "complaint_text": complaint_text if complaint_text else None
TextOrNone(complaint_text) ==
    IF complaint_text # <<>> THEN PyStr(complaint_text) ELSE PyNone

extract_data_fallback(message) ==
    [name |-> FirstName(message, 1),
     mobile_number |-> FirstMobile(message, MobileSearch(message, 1)),
     complaint_text |-> TextOrNone(FallbackText(message)),
     category |-> PyStr(FallbackCategory(message)),
     priority |-> PyStr(FallbackPriority(message))]

\* ------------------------------------------- the inference service's reply

PyInt(digits) ==
    [t |-> "int", v |-> digits]

\* a non-empty list
PyList ==
    [t |-> "list", v |-> <<"x">>]

\* the key is not in the dict
Absent ==
    [t |-> "absent", v |-> <<>>]

\* bool(value): None, '' and 0 are false
Truthy(value) ==
    CASE value.t \in {"none", "absent"} -> FALSE
      [] value.t = "int" -> value.v # <<"0">>
      [] OTHER -> value.v # <<>>

\* dict.get(key): None when the key is missing
Get(d, key) ==
    IF d[key].t = "absent" THEN PyNone ELSE d[key]

\* dict.get(key, default)
GetDefault(d, key, default) ==
    IF d[key].t = "absent" THEN default ELSE d[key]

\* A reply is a sequence of tokens: "fence_json" and "fence" (a code fence with
\* and without the json tag), "{" and "}", " " (a run of whitespace), "text"
\* (prose holding no brace and no fence),
\* "[]" (a JSON value that is not an object) and the names of member lists (the
\* text between the braces of a JSON object; Members gives the object it denotes).
ReplySpace ==
    {" "}

\* response_text[7:] / response_text[3:] when it starts with a fence
StripOpenFence(response_text) ==
    IF response_text # <<>> /\ response_text[1] \in {"fence_json", "fence"}
    THEN Tail(response_text)
    ELSE response_text

\* response_text[:-3] when it ends with a fence
StripCloseFence(response_text) ==
    IF response_text # <<>> /\ response_text[Len(response_text)] = "fence"
    THEN SubSeq(response_text, 1, Len(response_text) - 1)
    ELSE response_text

\* the code fences removed from both ends (main.py 182-187)
StripFences(response_text) ==
    StripCloseFence(StripOpenFence(response_text))

\* the text from the first of opens to the last of closes, when there is one
JsonSpan(response_text, opens, closes) ==
    IF opens # {} /\ closes # {} /\ MinOf(opens) < MaxOf(closes)
    THEN SubSeq(response_text, MinOf(opens), MaxOf(closes))
    ELSE response_text

\* re.search(r'\{.*\}', response_text, re.DOTALL): from the first "{" to the
\* last "}" (the star is greedy), when a "}" follows a "{"
JsonMatch(response_text) ==
    JsonSpan(response_text,
             {i \in 1..Len(response_text) : response_text[i] = "{"},
             {i \in 1..Len(response_text) : response_text[i] = "}"})

\* {}
EmptyDict ==
    [name |-> Absent, mobile_number |-> Absent, complaint_text |-> Absent,
     category |-> Absent, priority |-> Absent]

\* the JSON value of a token sequence without whitespace
JsonValue(toks, members) ==
    IF Len(toks) = 3 /\ toks[1] = "{" /\ toks[3] = "}" /\ toks[2] \in DOMAIN members
    THEN [kind |-> "dict", d |-> members[toks[2]]]
    ELSE IF toks = <<"{", "}">>
    THEN [kind |-> "dict", d |-> EmptyDict]
    ELSE IF toks = <<"[]">>
    THEN [kind |-> "value", d |-> EmptyDict]
    ELSE [kind |-> "error", d |-> EmptyDict]

\* json.loads(response_text.strip()): an object ("dict") when the text is one
\* pair of braces around a member list or around nothing, another JSON value
\* ("value") when it is the token "[]", and json.JSONDecodeError ("error")
\* otherwise. Whitespace between JSON tokens is allowed.
json_loads(response_text, members) ==
    JsonValue(SelectSeq(response_text, LAMBDA tok : tok \notin ReplySpace), members)

\* main.py 177-202 up to the json.loads call: strip, fences, brace search, strip
ParseReply(llm_response, members) ==
    json_loads(StripOf(JsonMatch(StripFences(StripOf(llm_response, ReplySpace))), ReplySpace),
               members)

\* --------------------------------------------------------------- inputs

TxtAsha ==
    <<"A","s","h","a">>

TxtRavi ==
    <<"R","a","v","i">>

TxtAshaRao ==
    <<"a","s","h","a"," ","r","a","o">>

TxtMobileA ==
    <<"9","8","7","6","5","4","3","2","1","0">>

TxtMobileB ==
    <<"9","1","2","3","4","5","6","7","8","9">>

TxtBillWrong ==
    <<"b","i","l","l"," ","w","r","o","n","g">>

TxtAppCrash ==
    <<"a","p","p"," ","c","r","a","s","h">>

TxtNetwork ==
    <<"n","e","t","w","o","r","k">>

TxtP1 ==
    <<"p","1">>

\* The JSON objects the inference service is taken to return, by member-list
\* name: complete ones, ones with a key missing, null, empty or zero, and ones
\* with values outside the prompt's vocabulary or of another JSON type.
Members ==
    [m_full |-> [name |-> PyStr(TxtAsha), mobile_number |-> PyStr(TxtMobileA),
                 complaint_text |-> PyStr(TxtBillWrong),
                 category |-> PyStr(Billing), priority |-> PyStr(High)],
     m_nocp |-> [name |-> PyStr(TxtRavi), mobile_number |-> PyStr(TxtMobileB),
                 complaint_text |-> PyStr(TxtAppCrash),
                 category |-> Absent, priority |-> Absent],
     m_nullcp |-> [name |-> PyStr(TxtAshaRao), mobile_number |-> PyStr(TxtMobileA),
                   complaint_text |-> PyStr(TxtAppCrash),
                   category |-> PyNone, priority |-> PyNone],
     m_badcp |-> [name |-> PyStr(TxtRavi), mobile_number |-> PyStr(TxtMobileA),
                  complaint_text |-> PyStr(TxtBillWrong),
                  category |-> PyStr(TxtNetwork), priority |-> PyStr(TxtP1)],
     m_int |-> [name |-> PyStr(TxtAsha), mobile_number |-> PyInt(TxtMobileB),
                complaint_text |-> PyStr(TxtBillWrong),
                category |-> PyStr(Technical), priority |-> PyStr(Low)],
     m_list |-> [name |-> PyList, mobile_number |-> PyStr(TxtMobileA),
                 complaint_text |-> PyStr(TxtBillWrong),
                 category |-> PyStr(General), priority |-> PyStr(Medium)],
     m_no_n |-> [name |-> PyNone, mobile_number |-> PyStr(TxtMobileA),
                 complaint_text |-> PyStr(TxtBillWrong),
                 category |-> PyStr(General), priority |-> PyStr(Medium)],
     m_no_m |-> [name |-> PyStr(TxtAsha), mobile_number |-> PyStr(<<>>),
                 complaint_text |-> PyStr(TxtBillWrong),
                 category |-> PyStr(General), priority |-> PyStr(Medium)],
     m_no_t |-> [name |-> PyStr(TxtAsha), mobile_number |-> PyStr(TxtMobileA),
                 complaint_text |-> Absent,
                 category |-> PyStr(General), priority |-> PyStr(Medium)],
     m_no_nm |-> [name |-> PyStr(<<>>), mobile_number |-> PyNone,
                  complaint_text |-> PyStr(TxtBillWrong),
                  category |-> PyStr(General), priority |-> PyStr(Medium)],
     m_no_nt |-> [name |-> Absent, mobile_number |-> PyStr(TxtMobileA),
                  complaint_text |-> PyStr(<<>>),
                  category |-> PyStr(General), priority |-> PyStr(Medium)],
     m_no_mt |-> [name |-> PyStr(TxtAsha), mobile_number |-> PyInt(<<"0">>),
                  complaint_text |-> PyNone,
                  category |-> PyStr(General), priority |-> PyStr(Medium)]]

\* the replies of the inference service to an extraction prompt
Replies ==
    {<<"{", m, "}">> : m \in DOMAIN Members}
    \cup {<<"{", "}">>,
          <<" ", "{", " ", "m_full", " ", "}", " ">>,
          <<"fence_json", " ", "{", "m_nocp", "}", " ", "fence">>,
          <<"fence", "{", "m_full", "}", "fence">>,
          <<"text", " ", "{", "m_nocp", "}", " ", "text">>,
          <<"fence_json", " ", "{", "m_full", "}">>,
          <<"{", "m_full", "}", " ", "{", "m_nocp", "}">>,
          <<"text", "{", "m_full">>,
          <<"}", "m_full", "{">>,
          <<"fence">>,
          <<"text">>,
          <<>>,
          <<"[]">>,
          <<"fence_json", "[]", "fence">>}

\* "My name is Asha Rao, mobile number 9876543210. My internet bill is wrong."
MsgAsha ==
    <<"M","y"," ","n","a","m","e"," ","i","s"," ","A","s","h","a"," ","R","a","o",","," ","m","o","b","i","l","e"," ","n","u","m","b","e","r"," ","9","8","7","6","5","4","3","2","1","0","."," ","M","y"," ","i","n","t","e","r","n","e","t"," ","b","i","l","l"," ","i","s"," ","w","r","o","n","g",".">>

\* "I am Ravi 9123456789 app crash urgent"
MsgRavi ==
    <<"I"," ","a","m"," ","R","a","v","i"," ","9","1","2","3","4","5","6","7","8","9"," ","a","p","p"," ","c","r","a","s","h"," ","u","r","g","e","n","t">>

\* "my name is   4x 9876543210 bug"
MsgEmptyName ==
    <<"m","y"," ","n","a","m","e"," ","i","s"," "," "," ","4","x"," ","9","8","7","6","5","4","3","2","1","0"," ","b","u","g">>

\* "call me Bo. 12345678901 cost"
MsgNoMobile ==
    <<"c","a","l","l"," ","m","e"," ","B","o","."," ","1","2","3","4","5","6","7","8","9","0","1"," ","c","o","s","t">>

\* "my name is Asha 9876543210"
MsgNoText ==
    <<"m","y"," ","n","a","m","e"," ","i","s"," ","A","s","h","a"," ","9","8","7","6","5","4","3","2","1","0">>

\* "the app is slow"
MsgOnlyText ==
    <<"t","h","e"," ","a","p","p"," ","i","s"," ","s","l","o","w">>

\* "9876543210"
MsgOnlyMobile ==
    <<"9","8","7","6","5","4","3","2","1","0">>

\* "this is John here"
MsgOnlyName ==
    <<"t","h","i","s"," ","i","s"," ","J","o","h","n"," ","h","e","r","e">>

\* ""
MsgEmpty ==
    <<>>

\* messages with keywords of several buckets:
\* "Support app bill LOW high Urgent",
\* "the support app is slow, minor but important",
\* "customer service, small"
KeywordMessages ==
    << <<"S","u","p","p","o","r","t"," ","a","p","p"," ","b","i","l","l"," ","L","O","W"," ","h","i","g","h"," ","U","r","g","e","n","t">>,
       <<"t","h","e"," ","s","u","p","p","o","r","t"," ","a","p","p"," ","i","s"," ","s","l","o","w",","," ","m","i","n","o","r"," ","b","u","t"," ","i","m","p","o","r","t","a","n","t">>,
       <<"c","u","s","t","o","m","e","r"," ","s","e","r","v","i","c","e",","," ","s","m","a","l","l">> >>

\* the messages sent to POST /collect-complaint
Messages ==
    {MsgAsha, MsgRavi, MsgEmptyName, MsgNoMobile, MsgNoText, MsgOnlyText,
     MsgOnlyMobile, MsgOnlyName, MsgEmpty}
    \cup {KeywordMessages[k] : k \in 1..Len(KeywordMessages)}

\* "9876543210"
QryMobile ==
    <<"9","8","7","6","5","4","3","2","1","0">>

\* "name: ASHA"
QryName ==
    <<"n","a","m","e",":"," ","A","S","H","A">>

\* "9123456789 name: ravi"
QryBoth ==
    <<"9","1","2","3","4","5","6","7","8","9"," ","n","a","m","e",":"," ","r","a","v","i">>

\* "recent"
QryRecent ==
    <<"r","e","c","e","n","t">>

\* "name: a_ha"
QryWildcard ==
    <<"n","a","m","e",":"," ","a","_","h","a">>

\* "Ravi issue"
QryIssue ==
    <<"R","a","v","i"," ","i","s","s","u","e">>

\* "name: Asha 9876543210"
QryNameMobile ==
    <<"n","a","m","e",":"," ","A","s","h","a"," ","9","8","7","6","5","4","3","2","1","0">>

\* the messages sent to POST /retrieve-complaints
Queries ==
    {QryMobile, QryName, QryBoth, QryRecent, QryWildcard, QryIssue, QryNameMobile}


\* ------------------------------------------------- retrieval: the criteria

\* the position after the group (\w+(?:\s+\w+)*) that starts at position g, taken
\* greedily: after the last word character of the run of word and space characters
GroupEnd(s, g) ==
    MaxOf({e \in g..(g + RunLen(s, g, WordChars \cup SpaceChars) - 1) :
              s[e] \in WordChars}) + 1

\* r'name[:\s]+' matched at position i, the group starting at position g
NameKeyFrom(s, i, a, g) ==
    IF g > a /\ g <= Len(s) /\ s[g] \in WordChars
    THEN Match(i, g, GroupEnd(s, g), GroupEnd(s, g))
    ELSE NoMatch

\* r'name[:\s]+(\w+(?:\s+\w+)*)' matched at position i
NameKeyMatchAt(s, i) ==
    IF LitAt(s, i, <<"n","a","m","e">>)
    THEN NameKeyFrom(s, i, i + 4, i + 4 + RunLen(s, i + 4, SpaceChars \cup {":"}))
    ELSE NoMatch

\* (?:complaint|issue) matches at position p
SubjectAt(s, p) ==
    \/ LitAt(s, p, <<"c","o","m","p","l","a","i","n","t">>)
    \/ LitAt(s, p, <<"i","s","s","u","e">>)

\* \s+(?:complaint|issue) matches right after position e
SubjectAfter(s, e) ==
    /\ e + 1 <= Len(s)
    /\ s[e + 1] \in SpaceChars
    /\ SubjectAt(s, e + 1 + RunLen(s, e + 1, SpaceChars))

\* the position after (?:complaint|issue) matched at position p
SubjectEndAt(s, p) ==
    IF LitAt(s, p, <<"c","o","m","p","l","a","i","n","t">>) THEN p + 9 ELSE p + 5

\* the position after \s+(?:complaint|issue) matched right after position e
SubjectEnd(s, e) ==
    SubjectEndAt(s, e + 1 + RunLen(s, e + 1, SpaceChars))

\* the group is greedy: of its possible last positions, the greatest
NameSubjectPick(s, i, ends) ==
    IF ends = {} THEN NoMatch
    ELSE Match(i, i, MaxOf(ends) + 1, SubjectEnd(s, MaxOf(ends)))

\* r'(\w+(?:\s+\w+)*)\s+(?:complaint|issue)' matched at position i: the longest
\* group that the subject follows is taken
NameSubjectMatchAt(s, i) ==
    IF i > Len(s) \/ s[i] \notin WordChars THEN NoMatch
    ELSE NameSubjectPick(s, i,
             {e \in i..(i + RunLen(s, i, WordChars \cup SpaceChars) - 1) :
                 s[e] \in WordChars /\ SubjectAfter(s, e)})

\* the k-th retrieval name pattern (main.py 268-271) matched at position i
RetrievalNameMatchAt(s, i, k) ==
    IF k = 1 THEN NameKeyMatchAt(s, i) ELSE NameSubjectMatchAt(s, i)

RetrievalNameFirst(s, k, at) ==
    IF at = {} THEN NoMatch ELSE RetrievalNameMatchAt(s, MinOf(at), k)

\* re.search of the k-th retrieval name pattern: the leftmost match
RetrievalNameSearch(s, k) ==
    RetrievalNameFirst(s, k, {i \in 1..Len(s) : RetrievalNameMatchAt(s, i, k).ok})

\* main.py 273-279: the first pattern that matches decides
RetrievalName(message, m1) ==
    IF m1.ok THEN m1 ELSE RetrievalNameSearch(message, 2)

\* the dict search_criteria; has_* tell whether the key is in it
Criteria(message, mobile_match, name_match) ==
    [has_mobile |-> mobile_match.ok,
     mobile_number |-> IF mobile_match.ok
                       THEN SubSeq(message, mobile_match.gs, mobile_match.ge - 1)
                       ELSE <<>>,
     has_name |-> name_match.ok,
     name |-> IF name_match.ok
              THEN strip(SubSeq(message, name_match.gs, name_match.ge - 1))
              ELSE <<>>]

\* main.py 261-279
SearchCriteria(message) ==
    Criteria(message, MobileSearch(message, 1),
             RetrievalName(message, RetrievalNameSearch(message, 1)))

\* ------------------------------------------------------ the complaints table

\* the limit of the query without criteria
RecentLimit ==
    5

\* The value a column gets from an attribute of the mapped object. The ORM leaves
\* an attribute that is None out of the INSERT, so the column default applies;
\* SQLite stores a str or an int in a String column as text.
ColumnValue(value, default) ==
    IF value.t = "none" THEN default ELSE value.v

\* sqlite3 binds str, int and None; any other Python type is an error
Bindable(value) ==
    value.t \in {"str", "int", "none"}

\* Complaint(name=..., mobile_number=..., complaint_text=..., category=...,
\* priority=...): the Python object, before it is inserted
Complaint(name, mobile_number, complaint_text, category, priority) ==
    [name |-> name, mobile_number |-> mobile_number, complaint_text |-> complaint_text,
     category |-> category, priority |-> priority]

\* the row the INSERT of obj writes, with the generated id and the clock reading
NewRow(obj, id, now) ==
    [complaint_id |-> id,
     name |-> ColumnValue(obj.name, <<>>),
     mobile_number |-> ColumnValue(obj.mobile_number, <<>>),
     complaint_text |-> ColumnValue(obj.complaint_text, <<>>),
     category |-> ColumnValue(obj.category, General),
     priority |-> ColumnValue(obj.priority, Medium),
     status |-> Pending,
     created_at |-> now,
     updated_at |-> now]

\* Ids are opaque and only compared for equality: a draw of uuid4().hex[:8] is
\* either the id of a row of the table or a fresh one, and the least unused
\* number stands for every fresh one.
IdDraws(table) ==
    {table[k].complaint_id : k \in 1..Len(table)}
    \cup {CHOOSE n \in 1..(Len(table) + 1) : \A k \in 1..Len(table) : table[k].complaint_id # n}

ExcInterface ==
    [type |-> "InterfaceError", msg |-> "Error binding parameter: type 'list' is not supported"]

ExcIntegrity ==
    [type |-> "IntegrityError", msg |-> "UNIQUE constraint failed: complaints.complaint_id"]

ExcOperational ==
    [type |-> "OperationalError", msg |-> "database is locked"]

ExcAttribute ==
    [type |-> "AttributeError", msg |-> "'list' object has no attribute 'get'"]

NoExc ==
    [type |-> "", msg |-> ""]

\* the NOT NULL columns of the table hold a value (database.py 29-31)
NotNullOk(obj) ==
    /\ obj.name.t # "none"
    /\ obj.mobile_number.t # "none"
    /\ obj.complaint_text.t # "none"

\* a table without the primary key on complaint_id: a second row with the id of
\* an existing one is inserted
CommitNoPrimaryKey(table, obj, id, now, fault) ==
    IF ~( /\ Bindable(obj.name) /\ Bindable(obj.mobile_number)
          /\ Bindable(obj.complaint_text) /\ Bindable(obj.category)
          /\ Bindable(obj.priority))
    THEN [ok |-> FALSE, exc |-> ExcInterface, table |-> table]
    ELSE IF ~NotNullOk(obj)
    THEN [ok |-> FALSE, exc |-> ExcIntegrity, table |-> table]
    ELSE IF fault
    THEN [ok |-> FALSE, exc |-> ExcOperational, table |-> table]
    ELSE [ok |-> TRUE, exc |-> NoExc, table |-> Append(table, NewRow(obj, id, now))]

\* db.commit() with obj pending: the INSERT and the COMMIT. The row is in the
\* table exactly when no exception is raised.
Commit(table, obj, id, now, fault) ==
    IF ~( /\ Bindable(obj.name) /\ Bindable(obj.mobile_number)
          /\ Bindable(obj.complaint_text) /\ Bindable(obj.category)
          /\ Bindable(obj.priority))
    THEN [ok |-> FALSE, exc |-> ExcInterface, table |-> table]
    ELSE IF ~NotNullOk(obj) \/ \E k \in 1..Len(table) : table[k].complaint_id = id
    THEN [ok |-> FALSE, exc |-> ExcIntegrity, table |-> table]
    ELSE IF fault
    THEN [ok |-> FALSE, exc |-> ExcOperational, table |-> table]
    ELSE [ok |-> TRUE, exc |-> NoExc, table |-> Append(table, NewRow(obj, id, now))]

\* the place of rows[k] under order_by created_at desc: after the rows of a
\* greater created_at and, among equals, after the rows inserted earlier
Rank(rows, k) ==
    1 + Cardinality({j \in 1..Len(rows) :
                        \/ rows[j].created_at > rows[k].created_at
                        \/ rows[j].created_at = rows[k].created_at /\ j < k})

\* order_by(Complaint.created_at.desc())
OrderByCreatedDesc(rows) ==
    [i \in 1..Len(rows) |-> rows[CHOOSE k \in 1..Len(rows) : Rank(rows, k) = i]]

\* .limit(n)
Limit(rows, n) ==
    SubSeq(rows, 1, IF Len(rows) < n THEN Len(rows) ELSE n)

\* Complaint.name.ilike('%' + pattern + '%'): LIKE on the lower-cased operands,
\* where "_" in the pattern stands for any one character ("%" is no word
\* character, so the extracted name never holds one)
ILikeContains(text, pattern) ==
    \E i \in 1..(Len(text) - Len(pattern) + 1) :
        \A k \in 1..Len(pattern) :
            \/ pattern[k] = "_"
            \/ LowerChar(text[i + k - 1]) = LowerChar(pattern[k])

\* the WHERE clause built from the criteria (main.py 284-288)
Filter(row, criteria) ==
    /\ criteria.has_mobile => row.mobile_number = criteria.mobile_number
    /\ criteria.has_name => ILikeContains(row.name, criteria.name)

\* a query that reads the table as it was before the latest commit
QueryComplaintsStale(table, criteria) ==
    IF ~criteria.has_mobile /\ ~criteria.has_name
    THEN Limit(OrderByCreatedDesc(SubSeq(table, 1, Len(table) - 1)), RecentLimit)
    ELSE SelectSeq(SubSeq(table, 1, Len(table) - 1), LAMBDA row : Filter(row, criteria))

\* main.py 281-294: the query built from the criteria, and .all()
QueryComplaints(table, criteria) ==
    IF ~criteria.has_mobile /\ ~criteria.has_name
    THEN Limit(OrderByCreatedDesc(table), RecentLimit)
    ELSE SelectSeq(table, LAMBDA row : Filter(row, criteria))

\* --------------------------------------------------------------- bounds

\* the number of complaints stored in one run
MaxNew ==
    2

\* ------------------------------------------- precomputed pure functions

FallbackTable ==
    [m \in Messages |-> extract_data_fallback(m)]

ParseTable ==
    [r \in Replies |-> ParseReply(r, Members)]

CriteriaTable ==
    [q \in Queries |-> SearchCriteria(q)]

\* -------------------------------------------------------- request handling

VARIABLES
    llm,        \* "ok" or "none": the module-level client, None when its construction raised
    store,      \* the committed rows of table complaints, in insertion order
    clock,      \* the next reading of datetime.utcnow
    inserts,    \* the number of rows inserted in this run
    pc,         \* "idle", "handler" (session yielded), "exit" (handler ended), "done"
    endpoint,   \* the endpoint of the request in flight
    session,    \* the request's Session: open or closed, and the objects added but not committed
    raised,     \* an exception left the handler (or get_db before the handler ran)
    response,   \* the HTTP response of the request in flight
    audit,      \* what the handler met on the way: the service missing, the parse, the extracted data, the fallback's argument, the criteria
    before,     \* the table as it was when the request arrived
    opened,     \* sessions opened for the request in flight
    closed      \* sessions closed for the request in flight

vars ==
    <<llm, store, clock, inserts, pc, endpoint, session, raised, response, audit, before,
      opened, closed>>

\* str(e) of the exceptions llm.invoke raises when the service is unreachable
LLMErrors ==
    {"connection refused", "model not found"}

\* what llm.invoke does for an extraction prompt: a reply, or an exception
ExtractionOutcomes ==
    {[ok |-> TRUE, text |-> r, msg |-> ""] : r \in Replies}
    \cup {[ok |-> FALSE, text |-> <<>>, msg |-> m] : m \in LLMErrors}

\* what llm.invoke does for a retrieval prompt
RetrievalOutcomes ==
    {[ok |-> TRUE, text |-> <<" ", "text", " ">>, msg |-> ""]}
    \cup {[ok |-> FALSE, text |-> <<>>, msg |-> m] : m \in LLMErrors}

NoCriteria ==
    [has_mobile |-> FALSE, mobile_number |-> <<>>, has_name |-> FALSE, name |-> <<>>]

NoAudit ==
    [unavailable |-> FALSE, parse |-> "", validated |-> FALSE, data |-> EmptyDict,
     fallback |-> <<>>, queried |-> FALSE, criteria |-> NoCriteria]

\* the inference service was not there: llm is None, or llm.invoke raised
AuditUnavailable ==
    [NoAudit EXCEPT !.unavailable = TRUE]

NoResponse ==
    [status |-> 0, detail |-> <<>>, rows |-> <<>>, text |-> <<>>, handled |-> TRUE]

\* raise HTTPException(status_code=..., detail=...), as the client sees it
HTTPException(status_code, detail) ==
    [status |-> status_code, detail |-> detail, rows |-> <<>>, text |-> <<>>, handled |-> TRUE]

\* str(HTTPException(...))
HTTPExceptionStr(e) ==
    <<"500: ">> \o e.detail

\* An exception that no handler catches: the framework answers 500 with its own
\* body, and the exception's message is not in it.
Unhandled ==
    [status |-> 500, detail |-> <<"Internal Server Error">>, rows |-> <<>>, text |-> <<>>,
     handled |-> FALSE]

LLMUnavailable ==
    HTTPException(500, <<"LLM service not available">>)

\* sep.join(parts)
RECURSIVE Join(_, _)
Join(parts, sep) ==
    IF Len(parts) <= 1 THEN parts
    ELSE <<parts[1], sep>> \o Join(Tail(parts), sep)

\* a validation that stops at the first field it finds missing
MissingFieldsFirstOnly(name, mobile_number, complaint_text) ==
    IF ~Truthy(name) THEN <<"name">>
    ELSE IF ~Truthy(mobile_number) THEN <<"mobile number">>
    ELSE IF ~Truthy(complaint_text) THEN <<"complaint description">>
    ELSE <<>>

\* a validation that takes an empty string for a value
MissingFieldsNullOnly(name, mobile_number, complaint_text) ==
    (IF name.t = "none" THEN <<"name">> ELSE <<>>)
    \o (IF mobile_number.t = "none" THEN <<"mobile number">> ELSE <<>>)
    \o (IF complaint_text.t = "none" THEN <<"complaint description">> ELSE <<>>)

\* main.py 212-219: the names of the fields that are missing, in the order tested
MissingFields(name, mobile_number, complaint_text) ==
    (IF ~Truthy(name) THEN <<"name">> ELSE <<>>)
    \o (IF ~Truthy(mobile_number) THEN <<"mobile number">> ELSE <<>>)
    \o (IF ~Truthy(complaint_text) THEN <<"complaint description">> ELSE <<>>)

\* main.py 221-224
IncompleteData(missing_fields) ==
    HTTPException(400, <<"Incomplete complaint data. Missing: ">> \o Join(missing_fields, ", "))

\* main.py 205-209 and 227-233: the object built from the extracted data
ComplaintOf(extracted_data) ==
    Complaint(Get(extracted_data, "name"),
              Get(extracted_data, "mobile_number"),
              Get(extracted_data, "complaint_text"),
              GetDefault(extracted_data, "category", PyStr(General)),
              GetDefault(extracted_data, "priority", PyStr(Medium)))

\* what a handler leaves behind
Outcome(table, pending, resp, exc_left, aud) ==
    [table |-> table, pending |-> pending, response |-> resp, raised |-> exc_left,
     audit |-> aud]

\* the handler's outcome becomes the state
Finish(r) ==
    /\ store' = r.table
    /\ inserts' = inserts + (Len(r.table) - Len(store))
    /\ clock' = clock + (Len(r.table) - Len(store))
    /\ session' = [session EXCEPT !.pending = r.pending]
    /\ response' = r.response
    /\ raised' = r.raised
    /\ audit' = r.audit

\* main.py 245-248: db.rollback(), then the 500 with the exception's message. When
\* the rollback itself raises, that exception leaves the handler.
CollectExcept(exc, table, pending, rollback_fault, aud) ==
    IF rollback_fault
    THEN Outcome(table, pending, Unhandled, TRUE, aud)
    ELSE Outcome(table, <<>>,
                 HTTPException(500, <<"Error collecting complaint: ", exc.msg>>), TRUE, aud)

\* the except clause entered with exc: the rollback works or raises
CollectRaise(exc, table, pending, aud) ==
    \E rollback_fault \in BOOLEAN :
        Finish(CollectExcept(exc, table, pending, rollback_fault, aud))

\* main.py 241: the stored row as the response body
CollectReturn(table, aud) ==
    Outcome(table, <<>>,
            [status |-> 200, detail |-> <<>>, rows |-> <<table[Len(table)]>>, text |-> <<>>,
             handled |-> TRUE],
            FALSE, aud)

\* main.py 235-241: db.refresh and the return, after db.add and db.commit gave c
CollectCommitted(db_complaint, c, aud) ==
    IF ~c.ok
    THEN CollectRaise(c.exc, c.table, <<db_complaint>>, aud)
    ELSE \E refresh_fault \in BOOLEAN :
             IF refresh_fault
             THEN CollectRaise(ExcOperational, c.table, <<>>, aud)
             ELSE Finish(CollectReturn(c.table, aud))

\* main.py 221-237: the 400 when a field is missing, else db.add and db.commit
CollectChecked(db_complaint, missing_fields, aud) ==
    IF missing_fields # <<>>
    THEN Finish(Outcome(store, <<>>, IncompleteData(missing_fields), TRUE, aud))
    ELSE \E id \in IdDraws(store), commit_fault \in BOOLEAN :
             CollectCommitted(db_complaint,
                              Commit(store, db_complaint, id, clock, commit_fault), aud)

\* main.py 205-219: the fields read from the extracted data and tested
CollectValidate(db_complaint, aud) ==
    CollectChecked(db_complaint,
                   MissingFields(db_complaint.name, db_complaint.mobile_number,
                                 db_complaint.complaint_text),
                   aud)

\* the handler from main.py 205 on, with extracted_data; fallback holds the
\* message when extract_data_fallback made it
CollectData(extracted_data, fallback, kind) ==
    CollectValidate(ComplaintOf(extracted_data),
                    [NoAudit EXCEPT !.parse = kind, !.validated = TRUE,
                                    !.data = extracted_data, !.fallback = fallback])

\* a handler without the except clause for json.JSONDecodeError: the parse
\* failure reaches the general except clause
CollectParsedNoFallback(parsed) ==
    IF parsed.kind = "dict"
    THEN CollectData(parsed.d, <<>>, parsed.kind)
    ELSE CollectRaise(IF parsed.kind = "error"
                      THEN [type |-> "JSONDecodeError", msg |-> "Expecting value"]
                      ELSE ExcAttribute,
                      store, <<>>, [NoAudit EXCEPT !.parse = parsed.kind])

\* main.py 198-202: json.loads gave parsed. On json.JSONDecodeError the fallback
\* extracts from the message; a reply that is JSON but no object fails at the
\* first .get (AttributeError).
CollectParsed(parsed) ==
    IF parsed.kind = "error"
    THEN \E message \in Messages :
             CollectData(FallbackTable[message], <<message>>, parsed.kind)
    ELSE IF parsed.kind = "value"
    THEN CollectRaise(ExcAttribute, store, <<>>, [NoAudit EXCEPT !.parse = parsed.kind])
    ELSE CollectData(parsed.d, <<>>, parsed.kind)

\* main.py 172-202: llm.invoke raised, or gave the reply that is parsed
CollectReply(out) ==
    IF ~out.ok
    THEN CollectRaise([type |-> "ConnectionError", msg |-> out.msg], store, <<>>,
                      AuditUnavailable)
    ELSE CollectParsed(ParseTable[out.text])

\* POST /collect-complaint (main.py 159-248). The message is drawn where the
\* handler first depends on it: only extract_data_fallback reads it.
collect_and_store_complaint ==
    /\ pc = "handler"
    /\ endpoint = "collect"
    /\ pc' = "exit"
    /\ UNCHANGED <<llm, endpoint, before, opened, closed>>
    /\ IF llm = "none"
       THEN Finish(Outcome(store, <<>>, LLMUnavailable, TRUE, AuditUnavailable))
       ELSE \E out \in ExtractionOutcomes : CollectReply(out)

\* main.py 336-338: every exception, HTTPException included, becomes a 500
RetrieveExcept(msg, aud) ==
    Outcome(store, <<>>,
            HTTPException(500, <<"Error retrieving complaints: ">> \o msg), TRUE, aud)

\* main.py 329-334: the reply stripped, and the rows found
RetrieveReturn(complaints, out, aud) ==
    Outcome(store, <<>>,
            [status |-> 200, detail |-> <<>>, rows |-> complaints,
             text |-> StripOf(out.text, ReplySpace), handled |-> TRUE],
            FALSE, aud)

\* main.py 296-334: llm.invoke for the answer, after the query gave complaints
RetrieveAnswer(complaints, aud) ==
    \E out \in RetrievalOutcomes :
        IF ~out.ok
        THEN Finish(RetrieveExcept(<<out.msg>>, [aud EXCEPT !.unavailable = TRUE]))
        ELSE Finish(RetrieveReturn(complaints, out, aud))

\* main.py 281-294: the query runs or raises
RetrieveQuery(search_criteria) ==
    \E query_fault \in BOOLEAN :
        IF query_fault
        THEN Finish(RetrieveExcept(<<ExcOperational.msg>>,
                                   [NoAudit EXCEPT !.criteria = search_criteria]))
        ELSE RetrieveAnswer(QueryComplaints(store, search_criteria),
                            [NoAudit EXCEPT !.queried = TRUE,
                                            !.criteria = search_criteria])

\* POST /retrieve-complaints (main.py 250-338)
retrieve_complaint_info ==
    /\ pc = "handler"
    /\ endpoint = "retrieve"
    /\ pc' = "exit"
    /\ UNCHANGED <<llm, endpoint, before, opened, closed>>
    /\ IF llm = "none"
       THEN Finish(RetrieveExcept(HTTPExceptionStr(LLMUnavailable), AuditUnavailable))
       ELSE \E message \in Queries : RetrieveQuery(CriteriaTable[message])

\* GET /complaints (main.py 340-349)
get_all_complaints ==
    /\ pc = "handler"
    /\ endpoint = "list"
    /\ pc' = "exit"
    /\ UNCHANGED <<llm, endpoint, before, opened, closed>>
    /\ \E query_fault \in BOOLEAN :
           IF query_fault
           THEN Finish(Outcome(store, <<>>,
                    HTTPException(500, <<"Error fetching all complaints: ", ExcOperational.msg>>),
                    TRUE, NoAudit))
           ELSE Finish(Outcome(store, <<>>,
                    [status |-> 200, detail |-> <<>>, rows |-> OrderByCreatedDesc(store),
                     text |-> <<>>, handled |-> TRUE],
                    FALSE, NoAudit))

ClosedSession ==
    [open |-> FALSE, pending |-> <<>>]

\* get_db up to its yield (database.py 54-60), for a request to endpoint ep: the
\* session is made and the connection tested. When the test raises, the except
\* and finally clauses run at once and the exception leaves get_db: the handler
\* never runs.
get_db_open(ep, smoke_test_ok) ==
    /\ pc = "idle"
    /\ ep = "collect" => inserts < MaxNew
    /\ endpoint' = ep
    /\ before' = store
    /\ opened' = opened + 1
    /\ audit' = NoAudit
    /\ IF smoke_test_ok
       THEN /\ session' = [open |-> TRUE, pending |-> <<>>]
            /\ pc' = "handler"
            /\ UNCHANGED <<closed, raised, response>>
       ELSE /\ session' = ClosedSession
            /\ closed' = closed + 1
            /\ raised' = TRUE
            /\ response' = Unhandled
            /\ pc' = "done"
    /\ UNCHANGED <<llm, store, clock, inserts>>

\* a get_db without the finally clause: the session is left open
get_db_close_missing ==
    /\ pc = "exit"
    /\ session.open
    /\ pc' = "done"
    /\ UNCHANGED <<llm, store, clock, inserts, endpoint, session, raised, response, audit,
                   before, opened, closed>>

\* get_db after its yield (database.py 61-66): an exception of the handler is
\* re-raised through the except clause, which rolls back; the finally clause
\* closes the session, which drops whatever was added and not committed.
get_db_close ==
    /\ pc = "exit"
    /\ session.open
    /\ session' = ClosedSession
    /\ closed' = closed + 1
    /\ pc' = "done"
    /\ UNCHANGED <<llm, store, clock, inserts, endpoint, raised, response, audit, before,
                   opened>>

\* the response leaves; the next request may arrive
send_response ==
    /\ pc = "done"
    /\ pc' = "idle"
    /\ endpoint' = ""
    /\ raised' = FALSE
    /\ response' = NoResponse
    /\ audit' = NoAudit
    /\ before' = <<>>
    /\ opened' = 0
    /\ closed' = 0
    /\ UNCHANGED <<llm, store, clock, inserts, session>>

\* The table a run starts with: the SQLite file outlives the process, so the
\* table is empty or holds the rows of earlier runs. The seeded table holds five
\* rows stored from replies of Members; rows 3 and 4 were stamped out of order
\* (utcnow is the wall clock).
SeedTable ==
    << NewRow(ComplaintOf(Members.m_full), 1, 1),
       NewRow(ComplaintOf(Members.m_nocp), 2, 2),
       NewRow(ComplaintOf(Members.m_nullcp), 3, 4),
       NewRow(ComplaintOf(Members.m_int), 4, 3),
       NewRow(ComplaintOf(Members.m_full), 5, 5) >>

Init ==
    /\ llm \in {"ok", "none"}
    /\ store \in {<<>>, SeedTable}
    /\ clock = Len(store) + 1
    /\ inserts = 0
    /\ pc = "idle"
    /\ endpoint = ""
    /\ session = ClosedSession
    /\ raised = FALSE
    /\ response = NoResponse
    /\ audit = NoAudit
    /\ before = <<>>
    /\ opened = 0
    /\ closed = 0

Next ==
    \/ \E ep \in {"collect", "retrieve", "list"}, smoke_test_ok \in BOOLEAN : get_db_open(ep, smoke_test_ok)
    \/ collect_and_store_complaint
    \/ retrieve_complaint_info
    \/ get_all_complaints
    \/ get_db_close
    \/ send_response

Spec ==
    Init /\ [][Next]_vars

\* the server runs a request that it has started to its end: the handler
\* returns or raises, get_db goes on after its yield, the response leaves
FairSpec ==
    /\ Spec
    /\ WF_vars(collect_and_store_complaint)
    /\ WF_vars(retrieve_complaint_info)
    /\ WF_vars(get_all_complaints)
    /\ WF_vars(get_db_close)
    /\ WF_vars(send_response)

\* ------------------------------------------------------------------ claims

\* the handler of POST /collect-complaint has ended and the response is not sent yet
CollectEnded ==
    pc = "exit" /\ endpoint = "collect"

\* An extracted field is absent: null or no key at all, or empty. Python's test
\* "not value" also holds a number 0 for absent.
AbsentField(value) ==
    \/ value.t \in {"none", "absent"}
    \/ value.v = <<>>
    \/ value.t = "int" /\ value.v = <<"0">>

\* the names of the absent fields of the extracted data d, in the fixed order
AbsentFieldNames(d) ==
    (IF AbsentField(d.name) THEN <<"name">> ELSE <<>>)
    \o (IF AbsentField(d.mobile_number) THEN <<"mobile number">> ELSE <<>>)
    \o (IF AbsentField(d.complaint_text) THEN <<"complaint description">> ELSE <<>>)

\* C1: when the handler of POST /collect-complaint has extracted the fields, the
\* response is a 400 exactly when one of name, mobile number and complaint text is
\* absent, and then its detail is "Incomplete complaint data. Missing: " followed
\* by the names of all the absent fields, in the order name, mobile number,
\* complaint description, joined by ", ".
C1_MissingFieldsListed ==
    CollectEnded /\ audit.validated =>
        /\ AbsentFieldNames(audit.data) # <<>> =>
               /\ response.status = 400
               /\ response.detail = <<"Incomplete complaint data. Missing: ">>
                                    \o Join(AbsentFieldNames(audit.data), ", ")
        /\ AbsentFieldNames(audit.data) = <<>> => response.status # 400

\* C1 witness: name and mobile number are absent, and the 400 names both
C1_Witness ==
    /\ CollectEnded
    /\ audit.validated
    /\ AbsentFieldNames(audit.data) = <<"name", "mobile number">>
    /\ response.status = 400
    /\ response.detail = <<"Incomplete complaint data. Missing: ", "name", ", ",
                           "mobile number">>

\* the rows stored by the request in flight
NewRows ==
    SubSeq(store, Len(before) + 1, Len(store))

\* C3: every stored complaint has a non-empty name, mobile number and complaint
\* text, and a request stores a complaint only when its validation found no field
\* missing.
C3_StoredFieldsNonEmpty ==
    /\ \A k \in 1..Len(store) :
           /\ store[k].name # <<>>
           /\ store[k].mobile_number # <<>>
           /\ store[k].complaint_text # <<>>
    /\ pc \in {"exit", "done"} /\ store # before =>
           /\ endpoint = "collect"
           /\ audit.validated
           /\ AbsentFieldNames(audit.data) = <<>>

\* C3 witness: a complaint stored from what the regex fallback extracted, next to
\* the ones stored from replies of the inference service
C3_Witness ==
    /\ CollectEnded
    /\ Len(NewRows) = 1
    /\ audit.fallback # <<>>
    /\ NewRows[1].name = audit.data.name.v
    /\ \E k \in 1..Len(before) : before[k].name = TxtAsha

\* C2: a POST /collect-complaint that ends in 400 or 500 leaves the table as it
\* was when the request arrived, and one that ends in 200 has added exactly the
\* row it returns.
C2_CreateAtomic ==
    CollectEnded =>
        /\ response.status \in {400, 500} => store = before
        /\ response.status = 200 => store = Append(before, response.rows[1])

\* the row holds the fields of the extracted data d
RowHolds(row, d) ==
    /\ row.name = d.name.v
    /\ row.mobile_number = d.mobile_number.v
    /\ row.complaint_text = d.complaint_text.v
    /\ row.category = d.category.v
    /\ row.priority = d.priority.v

\* the details of the 500 that a failure of the database gives
DatabaseFailureDetails ==
    {<<"Error collecting complaint: ", ExcIntegrity.msg>>,
     <<"Error collecting complaint: ", ExcOperational.msg>>,
     Unhandled.detail}

\* C4: when json.loads fails on the reply, the handler goes on with what
\* extract_data_fallback gives for the message, and the request ends as that data
\* decides: a 400 with the fallback's missing fields and nothing stored, or a 200
\* with one row stored that holds the fallback's fields. The only 500 left is the
\* one a failure of the database gives; the parse failure is in no response.
C4_ParseFailureFallsBack ==
    CollectEnded /\ audit.parse = "error" =>
        /\ audit.fallback # <<>>
        /\ audit.validated
        /\ audit.data = FallbackTable[audit.fallback[1]]
        /\ IF AbsentFieldNames(audit.data) # <<>>
           THEN /\ response = IncompleteData(AbsentFieldNames(audit.data))
                /\ store = before
           ELSE \/ /\ response.status = 200
                   /\ Len(NewRows) = 1
                   /\ RowHolds(NewRows[1], audit.data)
                   /\ response.rows = NewRows
                \/ /\ response.status = 500
                   /\ response.detail \in DatabaseFailureDetails

\* C4 witness: the reply was no JSON and the complaint that the fallback extracted
\* from the message is stored
C4_Witness ==
    /\ CollectEnded
    /\ audit.parse = "error"
    /\ audit.fallback = <<MsgAsha>>
    /\ response.status = 200
    /\ RowHolds(NewRows[1], FallbackTable[MsgAsha])

\* C5: when the inference service is not there (llm is None, or llm.invoke
\* raises), POST /collect-complaint and POST /retrieve-complaints answer 500 with
\* one fixed detail, the same for both and for every exception, and the table is
\* left alone. POST /collect-complaint with llm None answers "LLM service not
\* available", so that is the detail all of them would have.
C5_FixedUnavailableDetail ==
    pc = "exit" /\ endpoint \in {"collect", "retrieve"} /\ audit.unavailable =>
        /\ response.status = 500
        /\ response.detail = LLMUnavailable.detail
        /\ store = before

\* C6: no exception leaves a request unhandled: every request ends in a response
\* that a handler built (200, 400 from POST /collect-complaint only, or 500 with
\* the exception's message), whichever step raised.
C6_EveryExceptionHandled ==
    pc \in {"exit", "done"} =>
        /\ response.handled
        /\ response.status \in {200, 400, 500}
        /\ response.status = 400 => endpoint = "collect"
        /\ raised => response.status \in {400, 500}

\* C7: a request closes the session it opened exactly once before its response
\* leaves, whichever way the handler ends: a session is open only while the
\* handler runs or has just ended, the response leaves with one session opened
\* and one closed, and a session never stays open for ever.
C7_SessionClosedOnce ==
    /\ [](session.open <=> pc \in {"handler", "exit"})
    /\ [](pc = "done" => opened = 1 /\ closed = 1)
    /\ [](closed <= opened /\ opened <= 1)
    /\ []<>(~session.open)

\* C7 witness: POST /collect-complaint ended in an unexpected error, and its
\* session is closed
C7_Witness ==
    /\ pc = "done"
    /\ endpoint = "collect"
    /\ raised
    /\ response.status = 500
    /\ opened = 1
    /\ closed = 1
    /\ ~session.open

\* the handler of POST /retrieve-complaints has answered with the rows it found
RetrieveAnswered ==
    pc = "exit" /\ endpoint = "retrieve" /\ response.status = 200

\* word is in text, letter case aside
ContainsIgnoreCase(text, word) ==
    Contains(Lower(text), Lower(word))

\* the row satisfies the criteria, as the retrieval is said to apply them
Satisfies(row, criteria) ==
    /\ criteria.has_mobile => row.mobile_number = criteria.mobile_number
    /\ criteria.has_name => ContainsIgnoreCase(row.name, criteria.name)

\* rows are the n most recent rows of table, newest first
MostRecent(rows, table, n) ==
    /\ Len(rows) = (IF Len(table) < n THEN Len(table) ELSE n)
    /\ \A k \in 1..Len(rows) : \E j \in 1..Len(table) : table[j] = rows[k]
    /\ \A k \in 1..(Len(rows) - 1) : rows[k].created_at > rows[k + 1].created_at
    /\ \A j \in 1..Len(table) :
           \/ \E k \in 1..Len(rows) : rows[k] = table[j]
           \/ \A k \in 1..Len(rows) : table[j].created_at < rows[k].created_at

\* C8: the retrieval returns exactly the stored complaints that satisfy the
\* criteria: the mobile number equal, the name a substring whatever the letter
\* case, both when both are given; without criteria the 5 most recent complaints,
\* newest first.
C8_QueryReturnsMatching ==
    RetrieveAnswered =>
        IF ~audit.criteria.has_mobile /\ ~audit.criteria.has_name
        THEN MostRecent(response.rows, store, 5)
        ELSE response.rows = SelectSeq(store, LAMBDA row : Satisfies(row, audit.criteria))

\* the rows stored in this run
CreatedRows ==
    {store[k] : k \in (Len(store) - inserts + 1)..Len(store)}

\* C9: a retrieval by mobile number alone returns every complaint created before
\* it with that mobile number.
C9_ReadAfterWrite ==
    RetrieveAnswered /\ audit.criteria.has_mobile /\ ~audit.criteria.has_name =>
        \A row \in CreatedRows :
            row.mobile_number = audit.criteria.mobile_number =>
                \E k \in 1..Len(response.rows) : response.rows[k] = row

\* C9 witness: two complaints were created, the later one with the mobile number
\* asked for, and the retrieval returns it
C9_Witness ==
    /\ RetrieveAnswered
    /\ audit.criteria.has_mobile
    /\ ~audit.criteria.has_name
    /\ inserts = 2
    /\ store[Len(store)].mobile_number = audit.criteria.mobile_number
    /\ \E k \in 1..Len(response.rows) : response.rows[k] = store[Len(store)]

\* the values of category and of priority
Categories ==
    {Technical, Billing, Service, General}

Priorities ==
    {Low, Medium, High, Urgent}

\* C10: every stored complaint has a category of {technical, billing, service,
\* general} and a priority of {low, medium, high, urgent}, whatever the inference
\* service returned; a complaint stored from a reply without the key has category
\* general, priority medium.
C10_CategoryPriorityEnumerated ==
    /\ \A k \in 1..Len(store) :
           /\ store[k].category \in Categories
           /\ store[k].priority \in Priorities
    /\ CollectEnded /\ Len(NewRows) = 1 =>
           /\ audit.data.category.t = "absent" => NewRows[1].category = General
           /\ audit.data.priority.t = "absent" => NewRows[1].priority = Medium

\* the ids of the rows of table
IdsOf(table) ==
    {table[k].complaint_id : k \in 1..Len(table)}

\* C11: no two stored complaints have the same id. A POST /collect-complaint
\* leaves the rows it found as they were and adds at most one row, whose id is
\* the id of none of them: a generated id that is the id of a stored complaint
\* stores nothing and overwrites nothing.
C11_IdsUnique ==
    /\ \A j, k \in 1..Len(store) :
           store[j].complaint_id = store[k].complaint_id => j = k
    /\ CollectEnded =>
           /\ SubSeq(store, 1, Len(before)) = before
           /\ Len(NewRows) <= 1
           /\ \A k \in 1..Len(NewRows) : NewRows[k].complaint_id \notin IdsOf(before)
    /\ CollectEnded /\ response.detail = <<"Error collecting complaint: ", ExcIntegrity.msg>>
           => store = before

\* C11 witness: the generated id was the id of a stored complaint; db.commit()
\* raised IntegrityError and the table is as it was
C11_Witness ==
    /\ CollectEnded
    /\ before # <<>>
    /\ audit.validated
    /\ AbsentFieldNames(audit.data) = <<>>
    /\ response.status = 500
    /\ response.detail = <<"Error collecting complaint: ", ExcIntegrity.msg>>
    /\ store = before

\* C12: the table is append-only. Every step leaves each stored complaint where
\* it was with all its fields unchanged; a step that changes the table is a
\* POST /collect-complaint that ends in 200, and it adds one row. The handlers of
\* POST /retrieve-complaints and GET /complaints leave the table as it was.
C12_AppendOnly ==
    [][/\ Len(store') >= Len(store)
       /\ SubSeq(store', 1, Len(store)) = store
       /\ store' # store =>
              /\ pc = "handler"
              /\ endpoint = "collect"
              /\ Len(store') = Len(store) + 1
              /\ response'.status = 200]_vars

\* the position at which X starts in a message "my name is X": after the
\* literal and the whitespace that follows it
GivenNameStart(m) ==
    11 + RunLen(m, 11, SpaceChars)

\* the position after X: after the run of letters and whitespace
GivenNameEnd(m) ==
    GivenNameStart(m) + RunLen(m, GivenNameStart(m), NameClass)

\* X, trimmed
GivenName(m) ==
    strip(SubSeq(m, GivenNameStart(m), GivenNameEnd(m) - 1))

\* the message has the form "my name is X", X a name of several words that a
\* comma, a period or the end of the input ends
MyNameIsForm(m) ==
    /\ LitAt(m, 1, <<"m","y"," ","n","a","m","e"," ","i","s">>)
    /\ GivenNameStart(m) > 11
    /\ \E k \in 1..Len(GivenName(m)) : GivenName(m)[k] \in SpaceChars
    /\ GivenNameEnd(m) > Len(m) \/ m[GivenNameEnd(m)] \in {",", "."}

\* C13: for "My name is Asha Rao, mobile number 9876543210. My internet bill is
\* wrong." the regex fallback extractor gives name "Asha Rao", mobile number
\* "9876543210", category billing, priority medium and a text that contains
\* "internet bill is wrong" and neither the name nor the mobile number; and for
\* every message of the form "my name is X" it gives the whole of X, trimmed, as
\* the name.
C13_AshaRaoExtracted ==
    CollectEnded /\ audit.fallback # <<>> =>
        /\ audit.fallback = <<MsgAsha>> =>
               /\ audit.data.name = PyStr(<<"A","s","h","a"," ","R","a","o">>)
               /\ audit.data.mobile_number = PyStr(TxtMobileA)
               /\ audit.data.category = PyStr(Billing)
               /\ audit.data.priority = PyStr(Medium)
               /\ audit.data.complaint_text.t = "str"
               /\ Contains(audit.data.complaint_text.v,
                           <<"i","n","t","e","r","n","e","t"," ","b","i","l","l"," ","i","s"," ","w","r","o","n","g">>)
               /\ ~Contains(audit.data.complaint_text.v, <<"A","s","h","a"," ","R","a","o">>)
               /\ ~Contains(audit.data.complaint_text.v, TxtMobileA)
        /\ MyNameIsForm(audit.fallback[1]) =>
               audit.data.name = PyStr(GivenName(audit.fallback[1]))

\* one of the keywords is in the lowercased message
HasKeyword(m, keywords) ==
    \E k \in 1..Len(keywords) : Contains(Lower(m), keywords[k])

\* the first bucket, in the order billing, technical, service, with a keyword in
\* the message; general when there is none
FirstCategoryBucket(m) ==
    IF HasKeyword(m, billing_words) THEN Billing
    ELSE IF HasKeyword(m, technical_words) THEN Technical
    ELSE IF HasKeyword(m, service_words) THEN Service
    ELSE General

\* the first bucket, in the order urgent, high, low, with a keyword in the
\* message; medium when there is none
FirstPriorityBucket(m) ==
    IF HasKeyword(m, urgent_words) THEN Urgent
    ELSE IF HasKeyword(m, high_words) THEN High
    ELSE IF HasKeyword(m, low_words) THEN Low
    ELSE Medium

\* C14: the category that the regex fallback extractor gives is that of the first
\* bucket, in the order billing, technical, service, with a keyword in the
\* lowercased message, and general when there is none; its priority likewise in
\* the order urgent, high, low, and medium when there is none. The extractor
\* raises nothing: whenever json.loads failed, the handler has the extractor's
\* data and goes on to validate it.
C14_FirstBucketWins ==
    /\ CollectEnded /\ audit.parse = "error" => audit.fallback # <<>> /\ audit.validated
    /\ CollectEnded /\ audit.fallback # <<>> =>
           /\ audit.data.category = PyStr(FirstCategoryBucket(audit.fallback[1]))
           /\ audit.data.priority = PyStr(FirstPriorityBucket(audit.fallback[1]))

\* C14 witness: the message has keywords of all six buckets, and the extractor
\* gives billing and urgent
C14_Witness ==
    /\ CollectEnded
    /\ audit.fallback = <<KeywordMessages[1]>>
    /\ HasKeyword(KeywordMessages[1], technical_words)
    /\ HasKeyword(KeywordMessages[1], service_words)
    /\ HasKeyword(KeywordMessages[1], high_words)
    /\ HasKeyword(KeywordMessages[1], low_words)
    /\ audit.data.category = PyStr(Billing)
    /\ audit.data.priority = PyStr(Urgent)

====
